---- MODULE Spec2Model ----
(***************************************************************************)
(* Model of the resilient tool-invocation client                           *)
(* (src/src/integrations/mcp_client.py, AtlassianMCPClient.call_tool).     *)
(*                                                                         *)
(* Conventions.                                                            *)
(*   Optional[T]   a sequence of length <= 1: None is << >>, v is <<v>>.   *)
(*   str (errors)  a sequence of word tokens; `kw in s` is "kw occurs as   *)
(*                 consecutive tokens of s", lower() maps each token.      *)
(*   dict          a function from a finite set of keys.                   *)
(* call_tool is a coroutine: it is split at its two suspension points,     *)
(* the transport await (pc = "await") and the backoff sleep                *)
(* (pc = "sleep").                                                         *)
(***************************************************************************)
EXTENDS Integers, Sequences, FiniteSets, TLC

VARIABLES
    cloud_id,         \* self.cloud_id of the client
    pc,               \* position of the call_tool coroutine
    tool_name,        \* argument tool_name
    parameters,       \* argument parameters (mutated in place by the call)
    retries,          \* argument retries
    attempt,          \* loop variable of `for attempt in range(retries)`
    elapsed,          \* time.time() - start_time, in time units
    result,           \* the value call_tool returned (Optional)
    orig_parameters,  \* history: parameters as the caller passed them
    dispatched,       \* history: requests handed to llama_client.tools.call
    outcomes,         \* history: what the transport did on each attempt
    waits,            \* history: arguments of asyncio.sleep, in order
    client_state,     \* AtlassianMCPClient(): "none", "discovering", "ready", "failed"
    available_tools,  \* self.available_tools
    ctor_args,        \* history: the arguments the constructor was given
    discovery_calls,  \* history: call_tool entries made by _discover_cloud_id
    registry,         \* ModelProviderFactory._provider_classes
    openai_available, \* OPENAI_AVAILABLE of openai_provider
    reg_log,          \* history: the accepted register_provider calls, in order
    factory_last,     \* history: the last factory operation and how it ended
    adapter,          \* the provider instance in use
    backend,          \* how the model server behind the provider answers
    provider_last,    \* history: the last provider operation and how it ended
    requests,         \* history: the sampling options of the requests sent
    frames,           \* the call_tool coroutines of concurrent callers
    query_last,       \* history: the last catalog lookup or connection test
    instance,         \* the module global _mcp_client_instance
    constructions,    \* history: how often AtlassianMCPClient() was entered
    get_last          \* history: the last get_mcp_client call and its result

callVars == <<cloud_id, pc, tool_name, parameters, retries, attempt, elapsed,
              result, orig_parameters, dispatched, outcomes, waits>>

ctorVars == <<client_state, available_tools, ctor_args, discovery_calls>>

factoryVars == <<registry, openai_available, reg_log, factory_last>>

providerVars == <<adapter, backend, provider_last, requests>>

concVars == <<frames>>

lookupVars == <<query_last>>

singletonVars == <<instance, constructions, get_last>>

\* What neither call_tool nor the constructor touches.
nonClientVars == <<factoryVars, providerVars, concVars, lookupVars, singletonVars>>

\* What call_tool itself never touches.
nonCallVars == <<ctorVars, nonClientVars>>

vars == <<callVars, nonCallVars>>

-----------------------------------------------------------------------------
(* Bounds of the model *)

MaxRetries == 3

MaxLatency == 1

-----------------------------------------------------------------------------
(* Python values *)

None == << >>

Some(v) == <<v>>

\* Python truthiness of an Optional[str]: None and "" are falsy.
Truthy(opt) == opt # None /\ opt[1] # ""

EmptyDict == [k \in {} |-> None]

\* str.lower() on one word token.
LowerToken(tok) ==
    CASE tok = "Rate" -> "rate"
      [] tok = "Limit" -> "limit"
      [] tok = "Not" -> "not"
      [] tok = "Found" -> "found"
      [] tok = "Issue" -> "issue"
      [] tok = "Permission" -> "permission"
      [] tok = "Unauthorized" -> "unauthorized"
      [] tok = "Connection" -> "connection"
      [] OTHER -> tok

\* str(e).lower()
Lower(msg) == [i \in 1..Len(msg) |-> LowerToken(msg[i])]

\* `kw in s` for strings, on token sequences.
Contains(s, kw) ==
    \E i \in 1..(Len(s) - Len(kw) + 1) : SubSeq(s, i, i + Len(kw) - 1) = kw

-----------------------------------------------------------------------------
(* Inputs *)

ToolNames == {"Atlassian:getJiraIssue", "Atlassian:search"}

CloudIds == {None, Some(""), Some("cloud-1")}

ParameterMaps ==
    { EmptyDict,
      [k \in {"issueKey"} |-> Some("PROJ-1")],
      [k \in {"cloudId"} |-> None],
      [k \in {"cloudId", "issueKey"} |->
          IF k = "cloudId" THEN Some("cloud-2") ELSE Some("PROJ-1")] }

RetryBudgets == (0 - 1)..MaxRetries

\* What the transport may return: None, an empty map, a non-empty map.
TransportData == {None, Some("{}"), Some("{issue}")}

\* What str(e) of a transport exception may be.
ErrorMessages ==
    { <<"Rate", "Limit", "exceeded">>,
      <<"Issue", "Not", "Found">>,
      <<"Permission", "denied">>,
      <<"401", "Unauthorized">>,
      <<"Connection", "timeout">>,
      << >>,
      <<"rate", "limit", "policy", "not", "found">>,
      <<"Rate", "limit", "permission", "missing">>,
      <<"permission", "scheme", "not", "found">> }

Latencies == 0..MaxLatency

\* The catalog _discover_tools installs.
KnownTools ==
    << "Atlassian:createJiraIssue", "Atlassian:getJiraIssue",
       "Atlassian:editJiraIssue", "Atlassian:addCommentToJiraIssue",
       "Atlassian:transitionJiraIssue", "Atlassian:searchJiraIssuesUsingJql",
       "Atlassian:getJiraIssueRemoteIssueLinks", "Atlassian:getVisibleJiraProjects",
       "Atlassian:getJiraProjectIssueTypesMetadata", "Atlassian:lookupJiraAccountId",
       "Atlassian:createConfluencePage", "Atlassian:updateConfluencePage",
       "Atlassian:getConfluencePage", "Atlassian:getPagesInConfluenceSpace",
       "Atlassian:getConfluenceSpaces", "Atlassian:getConfluencePageDescendants",
       "Atlassian:createConfluenceFooterComment",
       "Atlassian:createConfluenceInlineComment",
       "Atlassian:getConfluencePageFooterComments",
       "Atlassian:searchConfluenceUsingCql", "Atlassian:search",
       "Atlassian:atlassianUserInfo", "Atlassian:getAccessibleAtlassianResources",
       "Atlassian:fetch" >>

DiscoveryTool == "Atlassian:getAccessibleAtlassianResources"

\* retries: int = 3, the default of call_tool_sync
DefaultRetries == 3

\* dict.get(k, default)
Get(d, k, default) == IF k \in DOMAIN d THEN d[k] ELSE default

\* A resource entry of the discovery tool's answer.
Resource(id) == [k \in {"id"} |-> Some(id)]

ResourceList(rs) == [k \in {"resources"} |-> rs]

\* What the transport may return for the discovery tool: None, {}, a map
\* without "resources", an empty list, one or two resources, a resource
\* without "id".
DiscoveryData ==
    { None,
      Some(EmptyDict),
      Some([k \in {"sites"} |-> << >>]),
      Some(ResourceList(<< >>)),
      Some(ResourceList(<<Resource("cloud-1")>>)),
      Some(ResourceList(<<Resource("cloud-2"), Resource("cloud-1")>>)),
      Some(ResourceList(<<[k \in {"name"} |-> Some("site")]>>)) }

\* ProviderType.all()
ProviderTypeAll == <<"ollama", "llama_stack", "openai">>

\* ModelProviderFactory._provider_classes as the class body sets it
BuiltinRegistry ==
    [k \in {"ollama", "llama_stack", "openai"} |->
        CASE k = "ollama" -> "OllamaProvider"
          [] k = "llama_stack" -> "LlamaStackProvider"
          [] k = "openai" -> "OpenAIProvider"]

-----------------------------------------------------------------------------
(* MCPToolResult and the five places call_tool builds one *)

MCPToolResult(success, data, error, tn, execution_time_ms) ==
    [success |-> success, data |-> data, error |-> error,
     tool_name |-> tn, execution_time_ms |-> execution_time_ms]

\* (time.time() - start_time) * 1000
ExecutionTime(t) == t * 1000

\* Faulty variant: data=result or {} (a falsy result is replaced).
SuccessResult_OrEmpty(res, tn, t) ==
    MCPToolResult(TRUE, IF res = None THEN Some("{}") ELSE res, None, Some(tn),
                  Some(ExecutionTime(t)))

SuccessResult(res, tn, t) ==
    MCPToolResult(TRUE, res, None, Some(tn), Some(ExecutionTime(t)))

\* Faulty variant: tool_name left at the dataclass default.
NotFoundResult_NoToolName(tn) ==
    MCPToolResult(FALSE, None, Some(<<"Resource", "not", "found">>), None, None)

NotFoundResult(tn) ==
    MCPToolResult(FALSE, None, Some(<<"Resource", "not", "found">>), Some(tn), None)

PermissionDeniedResult(tn) ==
    MCPToolResult(FALSE, None, Some(<<"Permission", "denied">>), Some(tn), None)

FailureResult(e, tn, t) ==
    MCPToolResult(FALSE, None, Some(e), Some(tn), Some(ExecutionTime(t)))

\* Faulty variant: the exhausted-retries result carries no error text.
MaxRetriesResult_NoError(tn) ==
    MCPToolResult(FALSE, None, None, Some(tn), None)

MaxRetriesResult(tn) ==
    MCPToolResult(FALSE, None, Some(<<"Max", "retries", "exceeded">>), Some(tn), None)

-----------------------------------------------------------------------------
(* call_tool: the pieces of its control flow *)

\* Faulty variant: the client's cloud_id overwrites an explicit cloudId.
InjectCloudId_Overwrite(ps, cid) ==
    IF Truthy(cid)
    THEN [k \in DOMAIN ps \cup {"cloudId"} |-> IF k = "cloudId" THEN cid ELSE ps[k]]
    ELSE ps

\* if "cloudId" not in parameters and self.cloud_id: parameters["cloudId"] = ...
InjectCloudId(ps, cid) ==
    IF "cloudId" \notin DOMAIN ps /\ Truthy(cid)
    THEN [k \in DOMAIN ps \cup {"cloudId"} |-> IF k = "cloudId" THEN cid ELSE ps[k]]
    ELSE ps

\* Faulty variant: range(retries + 1).
InRange_OffByOne(a, n) == a >= 0 /\ a <= n

\* for attempt in range(retries): whether the loop body runs for value a
InRange(a, n) == a >= 0 /\ a < n

\* the tests of the if/elif chain, on error_msg = str(e).lower()
IsRateLimit(error_msg) == Contains(error_msg, <<"rate", "limit">>)

IsNotFound(error_msg) == Contains(error_msg, <<"not", "found">>)

\* Faulty variant: 'unauthorized' is not tested.
IsPermission_NoUnauthorized(error_msg) == Contains(error_msg, <<"permission">>)

IsPermission(error_msg) ==
    Contains(error_msg, <<"permission">>) \/ Contains(error_msg, <<"unauthorized">>)

\* if attempt < retries - 1  (rate-limit branch)
MayBackoff(a, n) == a < n - 1

\* Faulty variant: every wait is one time unit.
WaitTime_Constant(a) == 1

\* Faulty variant: 2 * attempt.
WaitTime_Linear(a) == 2 * a

\* wait_time = 2 ** attempt
WaitTime(a) == 2 ^ a

\* if attempt == retries - 1  (the block after the if/elif chain)
IsLastAttempt(a, n) == a = n - 1

\* Faulty variant: the last attempt falls out of the loop like the others.
AfterChain_NoFinalReturn(e, a, n, tn, t) == [next |-> "continue"]

\* Faulty variant: the last attempt re-raises instead of returning a result.
AfterChain_Reraise(e, a, n, tn, t) ==
    IF IsLastAttempt(a, n) THEN [next |-> "raise"] ELSE [next |-> "continue"]

\* The block after the if/elif chain: return the original message on the
\* last attempt, otherwise fall out of the except block to the next iteration.
AfterChain(e, a, n, tn, t) ==
    IF IsLastAttempt(a, n)
    THEN [next |-> "return", result |-> FailureResult(e, tn, t)]
    ELSE [next |-> "continue"]

\* Faulty variant: the terminal keywords are tested before 'rate limit'.
ExceptOutcome_TerminalFirst(e, a, n, tn, t) ==
    LET error_msg == Lower(e) IN
    IF IsNotFound(error_msg)
    THEN [next |-> "return", result |-> NotFoundResult(tn)]
    ELSE IF IsPermission(error_msg)
    THEN [next |-> "return", result |-> PermissionDeniedResult(tn)]
    ELSE IF IsRateLimit(error_msg) /\ MayBackoff(a, n)
    THEN [next |-> "sleep", wait |-> WaitTime(a)]
    ELSE AfterChain(e, a, n, tn, t)

\* Faulty variant: the tests run on str(e), not on str(e).lower().
ExceptOutcome_NoLower(e, a, n, tn, t) ==
    IF IsRateLimit(e)
    THEN IF MayBackoff(a, n)
         THEN [next |-> "sleep", wait |-> WaitTime(a)]
         ELSE AfterChain(e, a, n, tn, t)
    ELSE IF IsNotFound(e)
    THEN [next |-> "return", result |-> NotFoundResult(tn)]
    ELSE IF IsPermission(e)
    THEN [next |-> "return", result |-> PermissionDeniedResult(tn)]
    ELSE AfterChain(e, a, n, tn, t)

\* except Exception as e: what the handler does with the exception text e
\* raised in iteration a of a call with budget n.
ExceptOutcome(e, a, n, tn, t) ==
    LET error_msg == Lower(e) IN
    IF IsRateLimit(error_msg)
    THEN IF MayBackoff(a, n)
         THEN [next |-> "sleep", wait |-> WaitTime(a)]
         ELSE AfterChain(e, a, n, tn, t)
    ELSE IF IsNotFound(error_msg)
    THEN [next |-> "return", result |-> NotFoundResult(tn)]
    ELSE IF IsPermission(error_msg)
    THEN [next |-> "return", result |-> PermissionDeniedResult(tn)]
    ELSE AfterChain(e, a, n, tn, t)

\* The for loop reaches value a: dispatch the transport call, or leave the
\* loop and return the trailing "Max retries exceeded" result.
LoopStep(a, tn, ps, n, sent) ==
    IF InRange(a, n)
    THEN /\ attempt' = a
         /\ pc' = "await"
         /\ dispatched' = Append(sent, [tool_name |-> tn, parameters |-> ps])
         /\ result' = None
    ELSE /\ attempt' = attempt
         /\ pc' = "returned"
         /\ dispatched' = sent
         /\ result' = Some(MaxRetriesResult(tn))

-----------------------------------------------------------------------------
(* State machine *)

\* No provider operation has run: nothing recorded for any of the four.
NoneYet == [op \in {"chat", "stream", "list", "health"} |-> None]

\* No request has been sent for chat_completion or stream_chat_completion.
NoRequests == [op \in {"chat", "stream"} |-> None]

\* The factory as the module defines it, before any operation on it.
FactoryUnused ==
    /\ registry = BuiltinRegistry
    /\ openai_available = TRUE
    /\ reg_log = << >>
    /\ factory_last = [op |-> "none"]

\* No provider instance in use.
ProviderUnused ==
    /\ adapter = None
    /\ backend = None
    /\ provider_last = NoneYet
    /\ requests = NoRequests

\* The two callers that share the client.
Invocations == {"A", "B"}

\* A caller that has not entered call_tool.
IdleFrame ==
    [pc |-> "idle", tool_name |-> "", parameters |-> EmptyDict, retries |-> 0,
     attempt |-> 0, elapsed |-> 0, result |-> None, dispatched |-> << >>,
     outcomes |-> << >>, waits |-> << >>]

\* No concurrent callers, no lookups, no get_mcp_client call so far.
RestUnused ==
    /\ frames = [c \in Invocations |-> IdleFrame]
    /\ query_last = [op |-> "none"]
    /\ instance = None
    /\ constructions = 0
    /\ get_last = [op |-> "none"]

\* No call_tool in progress.
CallIdle ==
    /\ pc = "idle"
    /\ tool_name = ""
    /\ parameters = EmptyDict
    /\ orig_parameters = EmptyDict
    /\ retries = 0
    /\ attempt = 0
    /\ elapsed = 0
    /\ result = None
    /\ dispatched = << >>
    /\ outcomes = << >>
    /\ waits = << >>

\* A client built with an explicit cloud_id or with auto-discovery off:
\* __init__ stores cloud_id and _discover_tools fills the catalog.
ClientReady ==
    /\ client_state = "ready"
    /\ available_tools = KnownTools
    /\ ctor_args = None
    /\ discovery_calls = 0

Init ==
    /\ cloud_id \in CloudIds
    /\ CallIdle
    /\ ClientReady
    /\ FactoryUnused
    /\ ProviderUnused
    /\ RestUnused

\* call_tool(tn, ps, n) on a client whose cloud_id is cid: everything up to
\* the first await.
CallEntry(tn, ps, n, cid) ==
    /\ tool_name' = tn
    /\ orig_parameters' = ps
    /\ parameters' = InjectCloudId(ps, cid)
    /\ retries' = n
    /\ elapsed' = 0
    /\ outcomes' = << >>
    /\ waits' = << >>
    /\ LoopStep(0, tn, parameters', n, << >>)

\* A caller enters call_tool(tn, ps, n) on the constructed client.
CallTool(tn, ps, n) ==
    /\ pc = "idle"
    /\ client_state = "ready"
    /\ CallEntry(tn, ps, n, cloud_id)
    /\ UNCHANGED <<cloud_id, nonCallVars>>

\* await self.llama_client.tools.call(...) returns data after lat time units.
TransportReturns(data, lat) ==
    /\ pc = "await"
    /\ elapsed' = elapsed + lat
    /\ outcomes' = Append(outcomes, [raised |-> FALSE, value |-> data])
    /\ result' = Some(SuccessResult(data, tool_name, elapsed'))
    /\ pc' = "returned"
    /\ UNCHANGED <<cloud_id, tool_name, parameters, orig_parameters, retries,
                   attempt, dispatched, waits, nonCallVars>>

\* await self.llama_client.tools.call(...) raises an Exception with text e.
\* The handler sleeps, returns, or falls through to the next iteration; an
\* exception it let through would leave call_tool (pc = "raised").
TransportRaises(e, lat) ==
    /\ pc = "await"
    /\ elapsed' = elapsed + lat
    /\ outcomes' = Append(outcomes, [raised |-> TRUE, value |-> e])
    /\ LET o == ExceptOutcome(e, attempt, retries, tool_name, elapsed') IN
       CASE o.next = "sleep" ->
              /\ waits' = Append(waits, o.wait)
              /\ pc' = "sleep"
              /\ UNCHANGED <<attempt, dispatched, result>>
         [] o.next = "return" ->
              /\ result' = Some(o.result)
              /\ pc' = "returned"
              /\ UNCHANGED <<attempt, dispatched, waits>>
         [] o.next = "continue" ->
              /\ LoopStep(attempt + 1, tool_name, parameters, retries, dispatched)
              /\ UNCHANGED waits
         [] o.next = "raise" ->
              /\ pc' = "raised"
              /\ UNCHANGED <<attempt, dispatched, result, waits>>
    /\ UNCHANGED <<cloud_id, tool_name, parameters, orig_parameters, retries,
                   nonCallVars>>

\* await asyncio.sleep(wait_time) returns; `continue` starts the next iteration.
SleepReturns ==
    /\ pc = "sleep"
    /\ elapsed' = elapsed + waits[Len(waits)]
    /\ LoopStep(attempt + 1, tool_name, parameters, retries, dispatched)
    /\ UNCHANGED <<cloud_id, tool_name, parameters, orig_parameters, retries,
                   outcomes, waits, nonCallVars>>

\* The caller takes what call_tool returned (or raised); the coroutine's frame
\* is gone and the client is ready for the next call.
CallerResumes ==
    /\ pc \in {"returned", "raised"}
    /\ client_state = "ready"
    /\ query_last.op # "testing"
    /\ pc' = "idle"
    /\ tool_name' = ""
    /\ parameters' = EmptyDict
    /\ orig_parameters' = EmptyDict
    /\ retries' = 0
    /\ attempt' = 0
    /\ elapsed' = 0
    /\ result' = None
    /\ dispatched' = << >>
    /\ outcomes' = << >>
    /\ waits' = << >>
    /\ UNCHANGED <<cloud_id, nonCallVars>>

Next ==
    \/ \E tn \in ToolNames, ps \in ParameterMaps, n \in RetryBudgets :
          CallTool(tn, ps, n)
    \/ \E data \in TransportData, lat \in Latencies : TransportReturns(data, lat)
    \/ \E e \in ErrorMessages, lat \in Latencies : TransportRaises(e, lat)
    \/ SleepReturns
    \/ CallerResumes

Spec == Init /\ [][Next]_vars

\* Each transport call and each backoff sleep returns.
FairSpec ==
    /\ Spec
    /\ WF_vars(\/ \E data \in TransportData, lat \in Latencies :
                      TransportReturns(data, lat)
               \/ \E e \in ErrorMessages, lat \in Latencies :
                      TransportRaises(e, lat))
    /\ WF_vars(SleepReturns)

-----------------------------------------------------------------------------
(* Vocabulary of the properties *)

\* The text e contains keyword kw, case-insensitively.
Mentions(e, kw) == Contains(Lower(e), kw)

MentionsRateLimit(e) == Mentions(e, <<"rate", "limit">>)

MentionsNotFound(e) == Mentions(e, <<"not", "found">>)

MentionsPermission(e) ==
    Mentions(e, <<"permission">>) \/ Mentions(e, <<"unauthorized">>)

Unclassified(e) ==
    ~MentionsRateLimit(e) /\ ~MentionsNotFound(e) /\ ~MentionsPermission(e)

Attempts == DOMAIN outcomes

Returned == pc = "returned"

\* The call has returned a failure whose error text is txt.
ReturnedError(txt) ==
    /\ Returned
    /\ result # None
    /\ result[1].success = FALSE
    /\ result[1].error = Some(txt)

RECURSIVE SumSeq(_)
SumSeq(q) == IF q = << >> THEN 0 ELSE q[1] + SumSeq(Tail(q))

\* sum of 2^i for i in 0..m
RECURSIVE GeoSum(_)
GeoSum(m) == IF m < 0 THEN 0 ELSE 2 ^ m + GeoSum(m - 1)

-----------------------------------------------------------------------------
(* C1..C10: call_tool *)

\* C1: with retries = N >= 1, when all N attempts fail rate-limited, the call
\* returns success=false with error exactly "Max retries exceeded".
C1_RateLimitExhaustion ==
    ( /\ Returned
      /\ retries >= 1
      /\ Len(outcomes) = retries
      /\ \A i \in Attempts :
            outcomes[i].raised /\ MentionsRateLimit(outcomes[i].value) )
    => ReturnedError(<<"Max", "retries", "exceeded">>)

\* C2: with retries = N >= 1, when every attempt fails with an unclassified
\* error, the transport is dispatched exactly N times and the call returns
\* success=false with the final attempt's original message, not
\* "Max retries exceeded".
C2_UnclassifiedExhaustion ==
    ( /\ Returned
      /\ retries >= 1
      /\ \A i \in Attempts : outcomes[i].raised /\ Unclassified(outcomes[i].value) )
    => /\ Len(dispatched) = retries
       /\ Len(outcomes) = retries
       /\ ReturnedError(outcomes[Len(outcomes)].value)
       /\ ~ReturnedError(<<"Max", "retries", "exceeded">>)

C2_Witness ==
    /\ Returned
    /\ retries = 3
    /\ Len(outcomes) = 3
    /\ \A i \in Attempts : outcomes[i].raised /\ Unclassified(outcomes[i].value)
    /\ outcomes[1].value # outcomes[3].value
    /\ ReturnedError(outcomes[3].value)

\* The call ended at attempt i, with error text txt and no later dispatch.
EndedAt(i, txt) ==
    /\ i = Len(outcomes)
    /\ Len(dispatched) = i
    /\ ReturnedError(txt)

\* C3 as stated: an attempt that fails with a message containing 'not found'
\* (case-insensitive) ends the call at once with "Resource not found" and no
\* further dispatch.
C3_AnyNotFoundMessageTerminal ==
    \A i \in Attempts :
        (outcomes[i].raised /\ MentionsNotFound(outcomes[i].value))
        => EndedAt(i, <<"Resource", "not", "found">>)

\* C3 amended: an attempt that fails with a message containing 'not found'
\* and not 'rate limit' (case-insensitive) ends the call at once with
\* success=false and error "Resource not found", and no further attempt is
\* dispatched; when it is the first attempt the transport is dispatched
\* exactly once.
C3_NotFoundTerminal ==
    \A i \in Attempts :
        ( /\ outcomes[i].raised
          /\ MentionsNotFound(outcomes[i].value)
          /\ ~MentionsRateLimit(outcomes[i].value) )
        => EndedAt(i, <<"Resource", "not", "found">>)

C3_Witness ==
    /\ Returned
    /\ retries = 3
    /\ Len(outcomes) = 1
    /\ outcomes[1].raised
    /\ outcomes[1].value = <<"Issue", "Not", "Found">>
    /\ Len(dispatched) = 1
    /\ ReturnedError(<<"Resource", "not", "found">>)

\* C4 as stated: an attempt that fails with a message containing 'permission'
\* or 'unauthorized' (case-insensitive) ends the call at once with
\* "Permission denied" and no further dispatch.
C4_AnyPermissionMessageTerminal ==
    \A i \in Attempts :
        (outcomes[i].raised /\ MentionsPermission(outcomes[i].value))
        => EndedAt(i, <<"Permission", "denied">>)

\* C4 amended: an attempt that fails with a message containing 'permission'
\* or 'unauthorized' and neither 'rate limit' nor 'not found'
\* (case-insensitive) ends the call at once with success=false and error
\* "Permission denied", and no further attempt is dispatched, whatever the
\* remaining retry budget.
C4_PermissionTerminal ==
    \A i \in Attempts :
        ( /\ outcomes[i].raised
          /\ MentionsPermission(outcomes[i].value)
          /\ ~MentionsRateLimit(outcomes[i].value)
          /\ ~MentionsNotFound(outcomes[i].value) )
        => EndedAt(i, <<"Permission", "denied">>)

C4_Witness ==
    /\ Returned
    /\ retries = 3
    /\ Len(outcomes) = 2
    /\ outcomes[1].raised
    /\ outcomes[2].raised
    /\ outcomes[2].value = <<"401", "Unauthorized">>
    /\ Len(dispatched) = 2
    /\ ReturnedError(<<"Permission", "denied">>)

\* C5: as soon as one attempt returns from the transport without error, the
\* call returns success=true with data equal to the transport's result (also
\* when that is None or empty) and the transport is not dispatched again.
C5_SuccessReturnsAtOnce ==
    \A i \in Attempts :
        ~outcomes[i].raised
        => /\ i = Len(outcomes)
           /\ Len(dispatched) = i
           /\ Returned
           /\ result # None
           /\ result[1].success = TRUE
           /\ result[1].data = outcomes[i].value

C5_Witness ==
    /\ Returned
    /\ retries = 3
    /\ Len(outcomes) = 2
    /\ outcomes[1].raised
    /\ ~outcomes[2].raised
    /\ outcomes[2].value = None
    /\ result[1].success = TRUE
    /\ result[1].data = None
    /\ Len(dispatched) = 2

\* C6: for every retries = N >= 0 and every sequence of transport outcomes,
\* call_tool dispatches at most N transport attempts, and a call that is
\* waiting for the transport or for a backoff sleep eventually returns a
\* result (given that each transport call and each sleep returns).
C6_BoundedAndTerminates ==
    /\ [](retries >= 0 => Len(dispatched) <= retries)
    /\ (pc \in {"await", "sleep"}) ~> (Returned /\ result # None)

C6_Witness ==
    /\ Returned
    /\ retries = 3
    /\ Len(dispatched) = 3
    /\ Len(waits) = 1
    /\ \E i \in Attempts : outcomes[i].raised /\ Unclassified(outcomes[i].value)
    /\ ~outcomes[3].raised

\* C7: when attempts 1..k-1 all fail rate-limited and attempt k succeeds, the
\* call returns success=true, the wait after 0-indexed attempt i is exactly
\* 2^i and the total waited is the sum of 2^i for i in 0..k-2 (which the
\* measured time includes); a call never sleeps after its last permitted
\* attempt.
C7_BackoffSchedule ==
    /\ ( /\ Returned
         /\ outcomes # << >>
         /\ ~outcomes[Len(outcomes)].raised
         /\ \A i \in 1..(Len(outcomes) - 1) :
               outcomes[i].raised /\ MentionsRateLimit(outcomes[i].value) )
       => /\ result[1].success = TRUE
          /\ Len(outcomes) <= retries
          /\ waits = [i \in 1..(Len(outcomes) - 1) |-> 2 ^ (i - 1)]
          /\ SumSeq(waits) = GeoSum(Len(outcomes) - 2)
          /\ elapsed >= SumSeq(waits)
    /\ (pc = "sleep" => attempt < retries - 1)
    /\ (waits # << >> => Len(waits) <= retries - 1)

C7_Witness ==
    /\ Returned
    /\ retries = 3
    /\ Len(outcomes) = 3
    /\ outcomes[1].raised /\ MentionsRateLimit(outcomes[1].value)
    /\ outcomes[2].raised /\ MentionsRateLimit(outcomes[2].value)
    /\ ~outcomes[3].raised
    /\ result[1].success = TRUE
    /\ waits = <<1, 2>>

\* C8: call_tool never raises for a transport failure: once the transport
\* has raised on some attempt, the call is waiting, sleeping or has returned
\* an MCPToolResult; the error never leaves call_tool.
C8_NeverRaises ==
    (\E i \in Attempts : outcomes[i].raised)
    => /\ pc \in {"await", "sleep", "returned"}
       /\ Returned => /\ result # None
                      /\ result[1].success \in BOOLEAN

C8_Witness ==
    /\ Returned
    /\ retries = 2
    /\ Len(outcomes) = 2
    /\ outcomes[1].raised
    /\ outcomes[2].raised
    /\ Unclassified(outcomes[2].value)
    /\ ReturnedError(outcomes[2].value)

\* C9: every MCPToolResult returned by call_tool satisfies: success=true
\* implies error is None; success=false implies data is None and error is a
\* non-null string; and tool_name is the tool name the caller requested.
C9_ResultShape ==
    Returned
    => /\ result # None
       /\ result[1].success = TRUE => result[1].error = None
       /\ result[1].success = FALSE =>
             result[1].data = None /\ result[1].error # None
       /\ result[1].tool_name = Some(tool_name)

C9_Witness ==
    /\ ReturnedError(<<"Resource", "not", "found">>)
    /\ result[1].data = None
    /\ tool_name = "Atlassian:search"
    /\ result[1].tool_name = Some("Atlassian:search")

\* C10: when the client holds a (non-empty) cloud_id and the parameters have
\* no cloudId key, every dispatched attempt carries cloudId equal to the
\* client's cloud_id and the other parameters as passed; when the parameters
\* already have a cloudId key, or the client holds no cloud_id, the
\* parameters are dispatched as passed.
C10_CloudIdInjection ==
    \A i \in DOMAIN dispatched :
        LET sent == dispatched[i].parameters
            holds == cloud_id # None /\ cloud_id # Some("")
        IN  IF "cloudId" \notin DOMAIN orig_parameters /\ holds
            THEN /\ DOMAIN sent = DOMAIN orig_parameters \cup {"cloudId"}
                 /\ sent["cloudId"] = cloud_id
                 /\ \A k \in DOMAIN orig_parameters : sent[k] = orig_parameters[k]
            ELSE sent = orig_parameters

C10_Witness ==
    /\ Len(dispatched) = 2
    /\ cloud_id = Some("cloud-1")
    /\ DOMAIN orig_parameters = {"issueKey"}
    /\ dispatched[2].parameters["cloudId"] = Some("cloud-1")
    /\ dispatched[2].parameters["issueKey"] = Some("PROJ-1")

-----------------------------------------------------------------------------
(* AtlassianMCPClient.__init__, _initialize, _discover_cloud_id *)

\* Python truthiness of an Optional[dict]: None and {} are falsy.
TruthyDict(opt) == opt # None /\ DOMAIN opt[1] # {}

\* Faulty variant: an answer without resources yields no cloud id instead
\* of an error.
DiscoverOutcome_NoneWhenEmpty(res) ==
    IF res.success /\ TruthyDict(res.data)
    THEN LET resources == Get(res.data[1], "resources", << >>) IN
         IF resources # << >>
         THEN [raised |-> FALSE, cloud_id |-> Get(resources[1], "id", None)]
         ELSE [raised |-> FALSE, cloud_id |-> None]
    ELSE [raised |-> FALSE, cloud_id |-> None]

\* _discover_cloud_id, after call_tool_sync has returned res: the id of the
\* first resource, or ValueError (every exception of the body is re-raised
\* as ValueError by its except clause).
DiscoverOutcome(res) ==
    IF res.success /\ TruthyDict(res.data)
    THEN LET resources == Get(res.data[1], "resources", << >>) IN
         IF resources # << >>
         THEN [raised |-> FALSE, cloud_id |-> Get(resources[1], "id", None)]
         ELSE [raised |-> TRUE, exc |-> "ValueError"]
    ELSE [raised |-> TRUE, exc |-> "ValueError"]

\* No client object exists yet.
CtorInit ==
    /\ cloud_id = None
    /\ CallIdle
    /\ client_state = "none"
    /\ available_tools = << >>
    /\ ctor_args = None
    /\ discovery_calls = 0
    /\ FactoryUnused
    /\ ProviderUnused
    /\ RestUnused

\* AtlassianMCPClient(cloud_id=cid, auto_discover_cloud_id=auto), up to the
\* first await: either discovery starts (call_tool_sync enters call_tool with
\* the discovery tool, {} and the default retries), or _discover_tools fills
\* the catalog and the constructor returns.
NewClient(cid, auto) ==
    /\ cloud_id' = cid
    /\ ctor_args' = Some([cloud_id |-> cid, auto_discover |-> auto])
    /\ IF auto /\ ~Truthy(cid)
       THEN /\ CallEntry(DiscoveryTool, EmptyDict, DefaultRetries, cid)
            /\ discovery_calls' = discovery_calls + 1
            /\ client_state' = "discovering"
            /\ available_tools' = << >>
       ELSE /\ client_state' = "ready"
            /\ available_tools' = KnownTools
            /\ UNCHANGED <<pc, tool_name, parameters, retries, attempt, elapsed,
                           result, orig_parameters, dispatched, outcomes, waits,
                           discovery_calls>>

Construct(cid, auto) ==
    /\ client_state = "none"
    /\ pc = "idle"
    /\ NewClient(cid, auto)
    /\ UNCHANGED nonClientVars

\* call_tool_sync returns to _discover_cloud_id: the constructor stores the
\* discovered id and fills the catalog, or fails with the error.
StoreDiscovery ==
    /\ client_state = "discovering"
    /\ pc = "returned"
    /\ pc' = "idle"
    /\ LET o == DiscoverOutcome(result[1]) IN
       IF o.raised
       THEN /\ client_state' = "failed"
            /\ UNCHANGED <<cloud_id, available_tools>>
       ELSE /\ client_state' = "ready"
            /\ cloud_id' = o.cloud_id
            /\ available_tools' = KnownTools
    /\ UNCHANGED <<tool_name, parameters, retries, attempt, elapsed, result,
                   orig_parameters, dispatched, outcomes, waits, ctor_args,
                   discovery_calls>>

DiscoveryReturns ==
    /\ StoreDiscovery
    /\ UNCHANGED nonClientVars

CtorNext ==
    \/ \E cid \in CloudIds, auto \in BOOLEAN : Construct(cid, auto)
    \/ \E data \in DiscoveryData, lat \in Latencies :
          client_state = "discovering" /\ TransportReturns(data, lat)
    \/ \E e \in ErrorMessages, lat \in Latencies :
          client_state = "discovering" /\ TransportRaises(e, lat)
    \/ client_state = "discovering" /\ SleepReturns
    \/ DiscoveryReturns

CtorSpec == CtorInit /\ [][CtorNext]_vars

-----------------------------------------------------------------------------
(* C11: construction with auto-discovery *)

\* The call's answer carries no resource: no data, no "resources" key, or an
\* empty list.
NoResources(data) ==
    \/ data = None
    \/ "resources" \notin DOMAIN data[1]
    \/ data[1]["resources"] = << >>

DiscoveryRequested ==
    /\ ctor_args # None
    /\ ctor_args[1].auto_discover
    /\ ctor_args[1].cloud_id \in {None, Some("")}

\* C11: constructing the client without a cloud_id and with auto-discovery
\* issues exactly one call_tool of the discovery tool with empty parameters
\* and retry budget 3; if that call returns success=false, or succeeds
\* without resources, construction fails and no client is produced; there is
\* no second discovery call.
C11_DiscoveryFailureIsFatal ==
    /\ discovery_calls = (IF DiscoveryRequested THEN 1 ELSE 0)
    /\ DiscoveryRequested =>
          /\ tool_name = DiscoveryTool
          /\ orig_parameters = EmptyDict
          /\ retries = 3
          /\ Len(dispatched) <= 3
          /\ \A i \in DOMAIN dispatched :
                /\ dispatched[i].tool_name = DiscoveryTool
                /\ dispatched[i].parameters = EmptyDict
          /\ client_state \in {"discovering", "ready", "failed"}
          /\ (client_state = "ready" =>
                /\ result # None
                /\ result[1].success = TRUE
                /\ ~NoResources(result[1].data))
          /\ ( /\ client_state # "discovering"
               /\ result # None
               /\ result[1].success = FALSE \/ NoResources(result[1].data) )
             => client_state = "failed"

C11_Witness ==
    /\ DiscoveryRequested
    /\ client_state = "failed"
    /\ discovery_calls = 1
    /\ Len(dispatched) = 2
    /\ result[1].success = TRUE
    /\ result[1].data = Some(ResourceList(<< >>))


-----------------------------------------------------------------------------
(* ModelProviderFactory: create and register_provider *)

\* How many accepted registrations a behaviour holds.
MaxRegistrations == 2

\* The provider kinds a configuration or a registration may name, in several
\* letter cases.
KindInputs == {"ollama", "Ollama", "OPENAI", "llama_stack", "custom", "Custom", "unknown"}

\* str.lower() on the kinds above
LowerKind(k) ==
    CASE k = "Ollama" -> "ollama"
      [] k = "OPENAI" -> "openai"
      [] k = "Custom" -> "custom"
      [] OTHER -> k

\* The objects a caller may hand to register_provider: two subclasses of
\* BaseModelProvider (one concrete, one that leaves abstract methods
\* unimplemented), a class outside the hierarchy, and a value that is no class.
RegisterClasses == {"CustomProvider", "AbstractProvider", "PlainClass", "not_a_class"}

RegisterKinds == {"custom", "Custom", "Ollama"}

IsClass(c) == c # "not_a_class"

\* issubclass(provider_class, BaseModelProvider)
IsSubclass(c) ==
    c \in {"OllamaProvider", "LlamaStackProvider", "OpenAIProvider",
           "CustomProvider", "AbstractProvider"}

ApiKeys == {None, Some(""), Some("sk-1")}

\* Configurations: "provider" missing, empty or a kind; "api_key" missing,
\* empty or set.
FactoryConfigs ==
    { [k \in {"api_key"} |-> key[1]] : key \in ApiKeys \ {None} }
    \cup { EmptyDict }
    \cup { [k \in {"provider"} |-> p] : p \in KindInputs \cup {""} }
    \cup { [k \in {"provider", "api_key"} |-> IF k = "provider" THEN p ELSE key[1]] :
             p \in KindInputs \cup {""}, key \in ApiKeys \ {None} }

\* The default of config.get("temperature", 0.7), in tenths.
DefaultTemperature == 7

\* The default of config.get("max_tokens", 4096).
DefaultMaxTokens == 4096

\* config.get(key)
ConfigGet(config, key) == IF key \in DOMAIN config THEN Some(config[key]) ELSE None

\* BaseModelProvider.__init__ and the subclass __init__ that follows it: the
\* instance, or the exception the constructor raises.
ProviderInit(c, config, available) ==
    LET api_key == ConfigGet(config, "api_key")
        base_url == ConfigGet(config, "base_url")
        built(url) == [raised |-> None,
                       adapter |-> Some([class |-> c, config |-> config,
                                         api_key |-> api_key, base_url |-> url,
                                         default_temperature |->
                                             Get(config, "temperature", DefaultTemperature),
                                         default_max_tokens |->
                                             Get(config, "max_tokens", DefaultMaxTokens)])]
        fails(exc) == [raised |-> Some(exc), adapter |-> None]
    IN  CASE c = "OllamaProvider" ->
               built(IF Truthy(base_url) THEN base_url ELSE Some("http://localhost:11434"))
          [] c = "LlamaStackProvider" ->
               built(IF Truthy(base_url) THEN base_url ELSE Some("http://localhost:5000"))
          [] c = "OpenAIProvider" ->
               IF ~available THEN fails("ImportError")
               ELSE IF ~Truthy(api_key) THEN fails("ValueError")
               ELSE built(base_url)
          [] c = "AbstractProvider" -> fails("TypeError")
          [] OTHER -> built(base_url)

\* The key create looks up.
CreateKey_NoLower(provider_type) == provider_type

CreateKey(provider_type) == LowerKind(provider_type)

\* The except clauses of create around provider_class(config).
CreateHandler_FallsBack(made) ==
    IF made.raised = Some("ImportError")
    THEN ProviderInit("OllamaProvider", EmptyDict, TRUE)
    ELSE made

CreateHandler(made) ==
    IF made.raised = Some("ImportError")
    THEN [raised |-> Some("ImportError"), adapter |-> None]
    ELSE made

\* ModelProviderFactory.create(config): what it raises or returns, together
\* with the kinds its message lists and the class whose constructor it ran.
CreateOutcome(config, reg, available) ==
    LET provider_type == ConfigGet(config, "provider") IN
    IF ~Truthy(provider_type)
    THEN [raised |-> Some("ValueError"), listed |-> Some(ProviderTypeAll),
          invoked |-> None, ctor_raised |-> None, adapter |-> None]
    ELSE LET key == CreateKey(provider_type[1]) IN
         IF key \notin DOMAIN reg
         THEN [raised |-> Some("ValueError"), listed |-> Some(ProviderTypeAll),
               invoked |-> None, ctor_raised |-> None, adapter |-> None]
         ELSE LET made == ProviderInit(reg[key], config, available)
                  out == CreateHandler(made)
              IN  [raised |-> out.raised, listed |-> None,
                   invoked |-> Some(reg[key]), ctor_raised |-> made.raised,
                   adapter |-> out.adapter]

\* The key register_provider stores under.
RegisterKey_NoLower(provider_type) == provider_type

RegisterKey(provider_type) == LowerKind(provider_type)

\* What register_provider raises for a class it does not accept.
RegisterRaises(c) ==
    IF ~IsClass(c) THEN Some("TypeError")
    ELSE IF ~IsSubclass(c) THEN Some("ValueError")
    ELSE None

\* dict item assignment
DictSet(d, k, v) == [x \in DOMAIN d \cup {k} |-> IF x = k THEN v ELSE d[x]]

FactoryInit ==
    /\ cloud_id = None
    /\ CallIdle
    /\ ClientReady
    /\ ProviderUnused
    /\ RestUnused
    /\ registry = BuiltinRegistry
    /\ openai_available \in BOOLEAN
    /\ reg_log = << >>
    /\ factory_last = [op |-> "none"]

Create(config) ==
    /\ factory_last' = [op |-> "create", config |-> config,
                        out |-> CreateOutcome(config, registry, openai_available)]
    /\ UNCHANGED <<registry, openai_available, reg_log, callVars, ctorVars, providerVars,
                   concVars, lookupVars, singletonVars>>

RegisterProvider(provider_type, provider_class) ==
    /\ Len(reg_log) < MaxRegistrations
    /\ LET raised == RegisterRaises(provider_class) IN
       /\ factory_last' = [op |-> "register", kind |-> provider_type,
                           class |-> provider_class, raised |-> raised]
       /\ IF raised = None
          THEN /\ registry' = DictSet(registry, RegisterKey(provider_type), provider_class)
               /\ reg_log' = Append(reg_log, [kind |-> provider_type, class |-> provider_class])
          ELSE UNCHANGED <<registry, reg_log>>
    /\ UNCHANGED <<openai_available, callVars, ctorVars, providerVars, concVars,
                   lookupVars, singletonVars>>

\* fallback_config of RequirementsAgent._initialize_provider
FallbackConfig ==
    [k \in {"provider", "model_name", "base_url", "temperature", "max_tokens"} |->
        CASE k = "provider" -> "ollama"
          [] k = "model_name" -> "llama3.3:70b"
          [] k = "base_url" -> "http://localhost:11434"
          [] k = "temperature" -> 7
          [] k = "max_tokens" -> 4096]

\* factory_config of _initialize_provider always has a "provider" entry.
AgentConfigs == {config \in FactoryConfigs : "provider" \in DOMAIN config}

\* One call of create as _initialize_provider sees it.
Attempt(config, out) == [config |-> config, raised |-> out.raised]

\* Faulty variant: no fallback, the first failure propagates.
InitializeProviderOutcome_NoFallback(config, reg, available) ==
    LET first == CreateOutcome(config, reg, available) IN
    [creates |-> <<Attempt(config, first)>>,
     raised |-> first.raised, adapter |-> first.adapter]

\* RequirementsAgent._initialize_provider from the try statement on: the
\* calls of create it makes, and what it raises or returns.
InitializeProviderOutcome(config, reg, available) ==
    LET first == CreateOutcome(config, reg, available) IN
    IF first.raised = None
    THEN [creates |-> <<Attempt(config, first)>>,
          raised |-> None, adapter |-> first.adapter]
    ELSE LET second == CreateOutcome(FallbackConfig, reg, available) IN
         [creates |-> <<Attempt(config, first), Attempt(FallbackConfig, second)>>,
          raised |-> second.raised, adapter |-> second.adapter]

InitializeProvider(config) ==
    /\ factory_last' = [op |-> "initialize_provider", config |-> config,
                        out |-> InitializeProviderOutcome(config, registry,
                                                          openai_available)]
    /\ UNCHANGED <<registry, openai_available, reg_log, callVars, ctorVars, providerVars,
                   concVars, lookupVars, singletonVars>>

\* ModelProviderFactory.supported_providers(): the list it returns.
SupportedProvidersResult(reg) == ProviderTypeAll

SupportedProviders ==
    /\ factory_last' = [op |-> "supported", out |-> SupportedProvidersResult(registry)]
    /\ UNCHANGED <<registry, openai_available, reg_log, callVars, ctorVars, providerVars,
                   concVars, lookupVars, singletonVars>>

FactoryNext ==
    \/ \E config \in FactoryConfigs : Create(config)
    \/ \E k \in RegisterKinds, c \in RegisterClasses : RegisterProvider(k, c)
    \/ \E config \in AgentConfigs : InitializeProvider(config)
    \/ SupportedProviders

FactorySpec == FactoryInit /\ [][FactoryNext]_vars

-----------------------------------------------------------------------------
(* Vocabulary for the factory claims *)

\* The kinds the factory's error message is to list.
SupportedKinds == <<"ollama", "llama_stack", "openai">>

\* Two kind names that differ at most in letter case.
SameKind(a, b) == LowerKind(a) = LowerKind(b)

\* The positions of the registration log that registered kind k.
RegistrationsOf(k) == {i \in 1..Len(reg_log) : SameKind(reg_log[i].kind, k)}

Max(S) == CHOOSE x \in S : \A y \in S : y <= x

BuiltinKinds == {"ollama", "llama_stack", "openai"}

\* Kind k is in the registry: built in, or registered since.
KindKnown(k) == (\E b \in BuiltinKinds : SameKind(b, k)) \/ RegistrationsOf(k) # {}

\* The class the registry is to hold for a known kind k: the latest
\* registration of k, else the built-in class.
ClassFor(k) ==
    IF RegistrationsOf(k) # {}
    THEN reg_log[Max(RegistrationsOf(k))].class
    ELSE BuiltinRegistry[LowerKind(k)]

CreateDone == factory_last.op = "create"

RequestedKind == ConfigGet(factory_last.config, "provider")

\* The configuration of the last create names no kind, an empty kind or an
\* unknown kind.
KindUnusable ==
    \/ RequestedKind = None
    \/ RequestedKind = Some("")
    \/ ~KindKnown(RequestedKind[1])

\* C12: create raises ValueError listing the supported kinds, and runs no
\* adapter constructor, exactly when the configuration's "provider" is
\* missing, empty or names a kind not in the registry; a kind is found
\* whatever its letter case.
C12_UnusableKindRejected ==
    CreateDone =>
        IF KindUnusable
        THEN /\ factory_last.out.raised = Some("ValueError")
             /\ factory_last.out.listed = Some(SupportedKinds)
             /\ factory_last.out.invoked = None
             /\ factory_last.out.adapter = None
        ELSE /\ factory_last.out.invoked # None
             /\ factory_last.out.listed = None

C12_Witness ==
    /\ CreateDone
    /\ RequestedKind = Some("unknown")
    /\ factory_last.out.raised = Some("ValueError")


ApiKeyGiven == Truthy(ConfigGet(factory_last.config, "api_key"))

\* C13: when the adapter constructor cannot import its dependency, create
\* raises an import error and yields no adapter; whatever else the constructor
\* raises (OpenAI without API key: ValueError) leaves create as raised, and
\* an adapter that create returns is an instance of the class registered for
\* the requested kind, never a substitute.
C13_ConstructorFailureSurfaces ==
    (CreateDone /\ factory_last.out.invoked # None) =>
        LET out == factory_last.out IN
        /\ (out.invoked = Some("OpenAIProvider") /\ ~openai_available) =>
               (out.raised = Some("ImportError") /\ out.adapter = None)
        /\ (out.invoked = Some("OpenAIProvider") /\ openai_available /\ ~ApiKeyGiven) =>
               (out.raised = Some("ValueError") /\ out.adapter = None)
        /\ out.ctor_raised # None =>
               (out.raised = out.ctor_raised /\ out.adapter = None)
        /\ out.adapter # None =>
               (out.raised = None /\ Some(out.adapter[1].class) = out.invoked)

C13_Witness ==
    /\ CreateDone
    /\ factory_last.out.invoked = Some("OpenAIProvider")
    /\ ~openai_available
    /\ factory_last.out.raised = Some("ImportError")
    /\ factory_last.out.adapter = None

RegisterDone == factory_last.op = "register"

\* The registry as the accepted registrations leave it.
RegistryAsLogged ==
    LET keys == BuiltinKinds \cup {LowerKind(reg_log[i].kind) : i \in 1..Len(reg_log)}
    IN  [k \in keys |-> ClassFor(k)]

\* C14: register_provider raises for every class that is no subclass of
\* BaseModelProvider and leaves the registry as it was; an accepted class is
\* what a later create constructs for that kind in any letter case, the
\* latest registration winning, also over a built-in kind.
C14_RegistrationGoverned ==
    /\ registry = RegistryAsLogged
    /\ RegisterDone =>
           IF factory_last.class \in {"CustomProvider", "AbstractProvider"}
           THEN /\ factory_last.raised = None
                /\ reg_log # << >>
                /\ reg_log[Len(reg_log)] =
                       [kind |-> factory_last.kind, class |-> factory_last.class]
           ELSE factory_last.raised # None
    /\ (CreateDone /\ ~KindUnusable) =>
           factory_last.out.invoked = Some(ClassFor(RequestedKind[1]))

C14_Witness ==
    /\ Len(reg_log) = 2
    /\ reg_log[1].kind = "Ollama"
    /\ reg_log[2] = [kind |-> "Ollama", class |-> "CustomProvider"]
    /\ reg_log[1].class = "AbstractProvider"
    /\ CreateDone
    /\ RequestedKind = Some("ollama")
    /\ factory_last.out.invoked = Some("CustomProvider")


-----------------------------------------------------------------------------
(* The three provider adapters: chat_completion, stream_chat_completion,
   list_models, health_check *)

\* How many pieces a backend's answer text comes in.
MaxPieces == 2

AdapterClasses == {"OllamaProvider", "LlamaStackProvider", "OpenAIProvider"}

\* A text is a sequence of tokens; "" is the empty sequence.
EmptyText == << >>

\* One piece of answer text as the backend sends it: null, "" or a word.
Pieces == {None, Some(EmptyText), Some(<<"a">>), Some(<<"b">>)}

PieceSeqs == UNION { [1..n -> Pieces] : n \in 0..MaxPieces }

\* What goes wrong between adapter and backend: nothing, no connection, a
\* non-success status, no answer in time, a body that does not decode, or a
\* decoded body without the expected structure.
Faults == {"none", "connection", "status", "timeout", "bad_json", "bad_shape"}

\* How a Llama Stack response carries its content.
Shapes == {"str", "blocks_obj", "blocks_map", "blocks_mixed", "obj"}

ModelLists == { << >>, <<"m1", "m2">> }

\* The fake backends: a fault, or an answer of some pieces in some shape, and
\* the models it serves. Only Llama Stack answers have more than one shape.
Backends(c) ==
    { [fault |-> f, pieces |-> << >>, shape |-> "str", models |-> << >>] :
        f \in Faults \ {"none"} }
    \cup
    { [fault |-> "none", pieces |-> ps, shape |-> sh, models |-> ms] :
        ps \in PieceSeqs,
        sh \in (IF c = "LlamaStackProvider" THEN Shapes ELSE {"str"}),
        ms \in ModelLists }

\* Python truthiness of an Optional text: None and "" are falsy.
TruthyText(opt) == opt # None /\ opt[1] # EmptyText

\* The exception the adapter's client library raises for a fault: aiohttp
\* with its default session for Ollama, the generated API clients for the
\* other two.
TransportException(c, fault) ==
    IF c = "OllamaProvider"
    THEN CASE fault = "connection" -> "ClientConnectorError"
           [] fault = "status" -> "ClientResponseError"
           [] fault = "timeout" -> "TimeoutError"
           [] fault = "bad_json" -> "JSONDecodeError"
           [] fault = "bad_shape" -> "AttributeError"
    ELSE CASE fault = "connection" -> "APIConnectionError"
           [] fault = "status" -> "APIStatusError"
           [] fault = "timeout" -> "APITimeoutError"
           [] fault = "bad_json" -> "APIResponseValidationError"
           [] fault = "bad_shape" ->
                 IF c = "OpenAIProvider" THEN "IndexError" ELSE "TypeError"

\* isinstance(e, aiohttp.ClientError)
IsClientError(exc) == exc \in {"ClientConnectorError", "ClientResponseError"}

Returns(v) == [kind |-> "returned", value |-> v]

\* An exception of the given type; cause is the exception whose message it
\* carries, if it wraps one.
Raises(type, cause) == [kind |-> "raised", type |-> type, cause |-> cause]

\* raise RuntimeError(f"...: {e}")
WrapRuntime(exc) == Raises("RuntimeError", Some(exc))

\* ModelResponse(content=..., ...)
ModelResponse(content) == [content |-> content]

RECURSIVE JoinTexts(_)
\* content += text, over the texts in order
JoinTexts(texts) ==
    IF texts = << >> THEN EmptyText
    ELSE texts[1] \o JoinTexts(Tail(texts))

\* The non-null pieces, in order.
TextsOf(pieces) ==
    LET RECURSIVE Sel(_)
        Sel(ps) == IF ps = << >> THEN << >>
                   ELSE IF ps[1] = None THEN Sel(Tail(ps))
                   ELSE <<ps[1][1]>> \o Sel(Tail(ps))
    IN  Sel(pieces)

\* The message of the backend's complete (non-streamed) answer: absent when
\* it answers with no pieces, content null when every piece is null, else the
\* pieces' text.
Message(b) ==
    IF b.pieces = << >> THEN [present |-> FALSE, content |-> None]
    ELSE [present |-> TRUE,
          content |-> IF \A i \in 1..Len(b.pieces) : b.pieces[i] = None
                      THEN None
                      ELSE Some(JoinTexts(TextsOf(b.pieces)))]

\* OllamaProvider.chat_completion: data.get("message", {}).get("content", "")
OllamaContent(b) ==
    IF Message(b).present THEN Message(b).content ELSE Some(EmptyText)

\* OpenAIProvider.chat_completion: response.choices[0].message.content or ""
OpenAIContent(b) ==
    IF TruthyText(Message(b).content) THEN Message(b).content ELSE Some(EmptyText)

\* response.content of a Llama Stack answer in the backend's shape.
LlamaStackResponseContent(b) ==
    LET m == Message(b)
        form(i) == CASE b.shape = "blocks_obj" -> "obj"
                     [] b.shape = "blocks_map" -> "map"
                     [] OTHER -> IF i % 2 = 1 THEN "obj" ELSE "map"
    IN  IF ~m.present THEN [kind |-> "missing"]
        ELSE CASE b.shape = "str" ->
                    IF m.content = None THEN [kind |-> "none"]
                    ELSE [kind |-> "str", value |-> m.content[1]]
               [] b.shape = "obj" -> [kind |-> "obj", text |-> m.content]
               [] OTHER ->
                    [kind |-> "list",
                     blocks |-> [i \in 1..Len(b.pieces) |->
                                   [form |-> form(i), text |-> b.pieces[i]]]]

\* Faulty variant: each block's text replaces the content instead of being
\* appended to it.
JoinBlocks_LastOnly(blocks) ==
    IF blocks = << >> THEN EmptyText ELSE blocks[Len(blocks)].text[1]

RECURSIVE JoinBlocks(_)
\* The loop over response.content: content += content_block.text, or
\* content_block["text"].
JoinBlocks(blocks) ==
    IF blocks = << >> THEN EmptyText
    ELSE blocks[1].text[1] \o JoinBlocks(Tail(blocks))

\* LlamaStackProvider.chat_completion, content extraction: the content, or
\* the exception the extraction raises.
LlamaStackContent(rc) ==
    CASE rc.kind \in {"missing", "none"} -> Returns(Some(EmptyText))
      [] rc.kind = "str" -> Returns(Some(rc.value))
      [] rc.kind = "obj" -> Returns(rc.text)
      [] rc.kind = "list" ->
            IF \E i \in 1..Len(rc.blocks) : rc.blocks[i].text = None
            THEN Raises("TypeError", None)
            ELSE Returns(Some(JoinBlocks(rc.blocks)))

\* chat_completion of adapter class c against backend b.
ChatOutcome(c, b) ==
    CASE c = "OllamaProvider" ->
            IF b.fault # "none"
            THEN LET exc == TransportException(c, b.fault) IN
                 IF IsClientError(exc) THEN WrapRuntime(exc) ELSE Raises(exc, None)
            ELSE Returns(ModelResponse(OllamaContent(b)))
      [] c = "LlamaStackProvider" ->
            IF b.fault # "none"
            THEN WrapRuntime(TransportException(c, b.fault))
            ELSE LET got == LlamaStackContent(LlamaStackResponseContent(b)) IN
                 IF got.kind = "raised" THEN WrapRuntime(got.type)
                 ELSE Returns(ModelResponse(got.value))
      [] c = "OpenAIProvider" ->
            IF b.fault # "none"
            THEN WrapRuntime(TransportException(c, b.fault))
            ELSE IF ~Message(b).present THEN WrapRuntime("IndexError")
            ELSE Returns(ModelResponse(OpenAIContent(b)))

\* The chunks a stream yields from the pieces: every piece, or only the
\* truthy ones.
Chunks(pieces, onlyTruthy) ==
    LET RECURSIVE Sel(_)
        Sel(ps) == IF ps = << >> THEN << >>
                   ELSE IF onlyTruthy /\ ~TruthyText(ps[1]) THEN Sel(Tail(ps))
                   ELSE <<ps[1]>> \o Sel(Tail(ps))
    IN  Sel(pieces)

\* stream_chat_completion of adapter class c against backend b, consumed to
\* its end: the chunks yielded, or the exception raised.
StreamOutcome(c, b) ==
    CASE c = "OllamaProvider" ->
            IF b.fault = "bad_json" THEN Returns(<< >>)
            ELSE IF b.fault # "none"
            THEN LET exc == TransportException(c, b.fault) IN
                 IF IsClientError(exc) THEN WrapRuntime(exc) ELSE Raises(exc, None)
            ELSE Returns(Chunks(b.pieces, TRUE))
      [] c = "LlamaStackProvider" ->
            IF b.fault # "none"
            THEN WrapRuntime(TransportException(c, b.fault))
            ELSE Returns(Chunks(b.pieces, FALSE))
      [] c = "OpenAIProvider" ->
            IF b.fault # "none"
            THEN WrapRuntime(TransportException(c, b.fault))
            ELSE Returns(Chunks(b.pieces, TRUE))

\* list_models of adapter class c against backend b.
ListOutcome(c, b) ==
    IF b.fault = "none" THEN Returns(b.models)
    ELSE IF c = "OllamaProvider"
    THEN LET exc == TransportException(c, b.fault) IN
         IF IsClientError(exc) THEN Returns(<< >>) ELSE Raises(exc, None)
    ELSE Returns(<< >>)

\* health_check of adapter class c against backend b.
HealthOutcome(c, b) ==
    IF c = "OllamaProvider"
    THEN Returns(b.fault \notin {"connection", "timeout", "status"})
    ELSE IF ListOutcome(c, b).kind = "returned" THEN Returns(TRUE)
    ELSE Returns(FALSE)

ProviderInitial ==
    /\ cloud_id = None
    /\ CallIdle
    /\ ClientReady
    /\ FactoryUnused
    /\ RestUnused
    /\ requests = NoRequests
    /\ \E c \in AdapterClasses :
          /\ adapter = ProviderInit(c, [k \in {"api_key"} |-> "sk-1"], TRUE).adapter
          /\ \E b \in Backends(c) : backend = Some(b)
    /\ provider_last = NoneYet

Record(op, outcome) ==
    /\ adapter # None
    /\ provider_last[op] = None
    /\ provider_last' = [provider_last EXCEPT ![op] = Some(outcome)]
    /\ UNCHANGED <<adapter, backend, requests, callVars, ctorVars, factoryVars,
                   concVars, lookupVars, singletonVars>>

ChatCompletion == Record("chat", ChatOutcome(adapter[1].class, backend[1]))

StreamChatCompletion == Record("stream", StreamOutcome(adapter[1].class, backend[1]))

ListModels == Record("list", ListOutcome(adapter[1].class, backend[1]))

HealthCheck == Record("health", HealthOutcome(adapter[1].class, backend[1]))

ProviderNext ==
    \/ ChatCompletion
    \/ StreamChatCompletion
    \/ ListModels
    \/ HealthCheck

ProviderSpec == ProviderInitial /\ [][ProviderNext]_vars


-----------------------------------------------------------------------------
(* Vocabulary for the provider claims *)

Done(op) == provider_last[op] # None

Out(op) == provider_last[op][1]

AdapterIs(c) == adapter # None /\ adapter[1].class = c

\* The backend failed the request: the transport broke, timed out, or the
\* response is not what the adapter can read.
BackendFailed == backend # None /\ backend[1].fault # "none"

\* The backend failed at the transport.
TransportFailed ==
    backend # None /\ backend[1].fault \in {"connection", "timeout", "status", "bad_json"}

\* The health probe's request did not succeed.
ProbeFailed ==
    backend # None /\ backend[1].fault \in {"connection", "timeout", "status"}

RECURSIVE ConcatInOrder(_)
\* The concatenation, in order, of a sequence of texts.
ConcatInOrder(ts) ==
    IF ts = << >> THEN << >> ELSE ConcatInOrder(SubSeq(ts, 1, Len(ts) - 1)) \o ts[Len(ts)]

\* C15: a chat_completion against a failing backend raises RuntimeError
\* carrying the cause, for each adapter, and returns no ModelResponse.
C15_ChatFailureIsBackendError ==
    (Done("chat") /\ BackendFailed) =>
        /\ Out("chat").kind = "raised"
        /\ Out("chat").type = "RuntimeError"
        /\ Out("chat").cause # None

\* C16: health_check never raises, returns false whenever its probe failed
\* and true only when the probe succeeded, for each adapter.
C16_HealthCheckFollowsProbe ==
    Done("health") =>
        /\ Out("health").kind = "returned"
        /\ Out("health").value = ~ProbeFailed

\* C17: list_models returns the empty sequence, and does not raise, on every
\* transport failure, for each adapter.
C17_ListModelsSwallowsFailure ==
    (Done("list") /\ TransportFailed) =>
        /\ Out("list").kind = "returned"
        /\ Out("list").value = << >>

\* C18: the content of every ModelResponse chat_completion returns is a
\* string, never null, for each adapter.
C18_ContentIsString ==
    (Done("chat") /\ Out("chat").kind = "returned") =>
        Out("chat").value.content # None

\* The backend answers, and every piece of its answer is text.
AnswersText ==
    /\ backend # None
    /\ backend[1].fault = "none"
    /\ backend[1].pieces # << >>
    /\ \A i \in 1..Len(backend[1].pieces) : backend[1].pieces[i] # None

\* The text the answer carries.
CarriedText ==
    ConcatInOrder([i \in 1..Len(backend[1].pieces) |-> backend[1].pieces[i][1]])

\* C19: the Llama Stack adapter's chat_completion returns the text the
\* response carries, whichever shape carries it: a plain string, a list of
\* text blocks (objects or maps; their texts concatenated in order), or one
\* object with a text attribute.
C19_ShapesNormalizeAlike ==
    (AdapterIs("LlamaStackProvider") /\ Done("chat") /\ AnswersText) =>
        /\ Out("chat").kind = "returned"
        /\ Out("chat").value.content = Some(CarriedText)

C19_Witness ==
    /\ AdapterIs("LlamaStackProvider")
    /\ Done("chat")
    /\ backend[1].shape = "blocks_mixed"
    /\ backend[1].pieces = <<Some(<<"a">>), Some(<<"b">>)>>
    /\ Out("chat").value.content = Some(<<"a", "b">>)

\* C20: when chat_completion and stream_chat_completion both answer against
\* the same backend, the chunks of the stream are strings whose concatenation
\* in order is the content of the chat response, for each adapter.
C20_StreamConcatEqualsChat ==
    (/\ Done("chat") /\ Out("chat").kind = "returned"
     /\ Done("stream") /\ Out("stream").kind = "returned") =>
        LET chunks == Out("stream").value IN
        /\ \A i \in 1..Len(chunks) : chunks[i] # None
        /\ Out("chat").value.content =
               Some(ConcatInOrder([i \in 1..Len(chunks) |-> chunks[i][1]]))


-----------------------------------------------------------------------------
(* C21..C23: ordering, sharing and frame of call_tool *)

StrictlyIncreasing(q) == \A i, j \in DOMAIN q : i < j => q[i] < q[j]

\* The attempts of the current call that were followed by a backoff sleep:
\* the rate-limited failures that were not the last permitted attempt.
BackedOff ==
    {i \in Attempts : /\ outcomes[i].raised
                      /\ MentionsRateLimit(outcomes[i].value)
                      /\ i < retries}

\* The attempts of one call never overlap: at most one dispatch is without
\* outcome, and it is outstanding exactly while the call awaits the transport;
\* every attempt before the latest has failed.
AttemptsSequential ==
    /\ Len(dispatched) = Len(outcomes) + (IF pc = "await" THEN 1 ELSE 0)
    /\ \A i \in 1..(Len(dispatched) - 1) : outcomes[i].raised

\* C21 as stated: every retry, whatever the failure that caused it, comes
\* after a wait, and the waits of a call are strictly increasing.
C21_EveryRetryWaitsLonger ==
    /\ AttemptsSequential
    /\ Len(waits) >= Len(dispatched) - 1
    /\ StrictlyIncreasing(waits)

\* C21: within one call the attempts are strictly sequential: a new attempt
\* is dispatched only when the previous one has failed and, if a backoff
\* sleep followed it, only when that sleep has returned after its full wait.
\* The waits are those after rate-limited failures, 2^i after attempt i, and
\* so strictly increasing; an unclassified failure is retried with no wait.
C21_SequentialRetries ==
    /\ [](/\ AttemptsSequential
          /\ (pc = "sleep" => waits # << >>)
          /\ StrictlyIncreasing(waits)
          /\ Len(waits) = Cardinality(BackedOff))
    /\ [][ /\ (pc = "sleep" /\ pc' # "sleep") => elapsed' = elapsed + waits[Len(waits)]
           /\ (pc = "sleep" /\ pc' = "sleep") => dispatched' = dispatched
           /\ (pc \in {"await", "sleep"})
                 => Len(dispatched') <= Len(dispatched) + 1 ]_vars

C21_Witness ==
    /\ Returned
    /\ retries = 3
    /\ Len(dispatched) = 3
    /\ waits = <<2>>
    /\ outcomes[1].raised /\ Unclassified(outcomes[1].value)
    /\ outcomes[2].raised /\ MentionsRateLimit(outcomes[2].value)


-----------------------------------------------------------------------------
(* Concurrent call_tool invocations on one client. Each caller's coroutine
   has its own locals (a frame); the callers share self.cloud_id and the
   transport, and interleave at the transport await and the backoff sleep. *)

\* What the transport does to a concurrent caller's attempt.
ConcErrors ==
    { <<"Rate", "Limit", "exceeded">>,
      <<"Issue", "Not", "Found">>,
      <<"Connection", "timeout">> }

ConcData == {Some("{issue}")}

ConcBudgets == 0..MaxRetries

\* Faulty variant: the loop counter lives on the client, so a caller sees
\* the furthest attempt any caller has reached.
OwnFrame_SharedAttempt(fs, c) ==
    [fs[c] EXCEPT !.attempt =
        CHOOSE a \in {fs[d].attempt : d \in DOMAIN fs} :
            \A d \in DOMAIN fs : fs[d].attempt <= a]

\* The locals of caller c's coroutine.
OwnFrame(fs, c) == fs[c]

\* LoopStep on a frame: the for loop reaches value a.
FrameLoopStep(f, a) ==
    IF InRange(a, f.retries)
    THEN [f EXCEPT !.attempt = a,
                   !.pc = "await",
                   !.dispatched = Append(@, [tool_name |-> f.tool_name,
                                             parameters |-> f.parameters]),
                   !.result = None]
    ELSE [f EXCEPT !.pc = "returned",
                   !.result = Some(MaxRetriesResult(f.tool_name))]

\* call_tool(tn, ps, n) up to the first await, on a fresh frame.
FrameEntry(tn, ps, n, cid) ==
    FrameLoopStep([IdleFrame EXCEPT !.tool_name = tn,
                                    !.parameters = InjectCloudId(ps, cid),
                                    !.retries = n], 0)

\* The transport call of frame f returns data. (A frame's clock counts its
\* backoff waits only.)
FrameReturns(f, data) ==
    [f EXCEPT !.outcomes = Append(@, [raised |-> FALSE, value |-> data]),
              !.result = Some(SuccessResult(data, f.tool_name, f.elapsed)),
              !.pc = "returned"]

\* The transport call of frame f raises an Exception with text e.
FrameRaises(f, e) ==
    LET g == [f EXCEPT !.outcomes = Append(@, [raised |-> TRUE, value |-> e])]
        o == ExceptOutcome(e, f.attempt, f.retries, f.tool_name, f.elapsed)
    IN  CASE o.next = "sleep" ->
               [g EXCEPT !.waits = Append(@, o.wait), !.pc = "sleep"]
          [] o.next = "return" ->
               [g EXCEPT !.result = Some(o.result), !.pc = "returned"]
          [] o.next = "continue" -> FrameLoopStep(g, f.attempt + 1)
          [] o.next = "raise" -> [g EXCEPT !.pc = "raised"]

\* asyncio.sleep of frame f returns.
FrameWakes(f) ==
    FrameLoopStep([f EXCEPT !.elapsed = @ + f.waits[Len(f.waits)]], f.attempt + 1)

ConcInit ==
    /\ cloud_id \in {None, Some("cloud-1")}
    /\ CallIdle
    /\ ClientReady
    /\ FactoryUnused
    /\ ProviderUnused
    /\ RestUnused

ConcStep(c, f) ==
    /\ frames' = [frames EXCEPT ![c] = f]
    /\ UNCHANGED <<callVars, ctorVars, factoryVars, providerVars, lookupVars,
                   singletonVars>>

ConcCallTool(c, tn, n) ==
    /\ frames[c].pc = "idle"
    /\ ConcStep(c, FrameEntry(tn, EmptyDict, n, cloud_id))

ConcTransportReturns(c, data) ==
    /\ frames[c].pc = "await"
    /\ ConcStep(c, FrameReturns(OwnFrame(frames, c), data))

ConcTransportRaises(c, e) ==
    /\ frames[c].pc = "await"
    /\ ConcStep(c, FrameRaises(OwnFrame(frames, c), e))

ConcSleepReturns(c) ==
    /\ frames[c].pc = "sleep"
    /\ ConcStep(c, FrameWakes(OwnFrame(frames, c)))

ConcNext ==
    \E c \in Invocations :
        \/ \E tn \in ToolNames, n \in ConcBudgets : ConcCallTool(c, tn, n)
        \/ \E data \in ConcData : ConcTransportReturns(c, data)
        \/ \E e \in ConcErrors : ConcTransportRaises(c, e)
        \/ ConcSleepReturns(c)

ConcSpec == ConcInit /\ [][ConcNext]_vars

\* What identifies an invocation's own inputs and transport outcomes.
SameRun(f, g) ==
    /\ f.tool_name = g.tool_name
    /\ f.retries = g.retries
    /\ f.outcomes = g.outcomes
    /\ f.pc = g.pc

\* The failures of f that a backoff followed.
FrameBackedOff(f) ==
    {i \in DOMAIN f.outcomes : /\ f.outcomes[i].raised
                               /\ MentionsRateLimit(f.outcomes[i].value)
                               /\ i < f.retries}

\* Every outcome of f is a failure that asks for another attempt.
OnlyRetryable(f) ==
    \A i \in DOMAIN f.outcomes :
        /\ f.outcomes[i].raised
        /\ MentionsRateLimit(f.outcomes[i].value) \/ Unclassified(f.outcomes[i].value)

-----------------------------------------------------------------------------
(* The client after construction: call_tool next to is_tool_available,
   get_available_tools and test_connection *)

\* The keywords of get_available_tools' category_map that occur in a tool name
\* (`keyword in tool`, case-sensitive).
KeywordsIn(tool) ==
    CASE tool \in {"Atlassian:createJiraIssue", "Atlassian:getJiraIssue",
           "Atlassian:editJiraIssue", "Atlassian:addCommentToJiraIssue",
           "Atlassian:transitionJiraIssue",
           "Atlassian:getJiraIssueRemoteIssueLinks",
           "Atlassian:getVisibleJiraProjects",
           "Atlassian:getJiraProjectIssueTypesMetadata",
           "Atlassian:lookupJiraAccountId"} ->
             {"Jira"}
      [] tool \in {"Atlassian:searchJiraIssuesUsingJql"} ->
             {"Jira", "search"}
      [] tool \in {"Atlassian:createConfluencePage",
           "Atlassian:updateConfluencePage", "Atlassian:getConfluencePage",
           "Atlassian:getPagesInConfluenceSpace",
           "Atlassian:getConfluenceSpaces",
           "Atlassian:getConfluencePageDescendants",
           "Atlassian:createConfluenceFooterComment",
           "Atlassian:createConfluenceInlineComment",
           "Atlassian:getConfluencePageFooterComments"} ->
             {"Confluence"}
      [] tool \in {"Atlassian:searchConfluenceUsingCql"} ->
             {"Confluence", "search"}
      [] tool \in {"Atlassian:search"} ->
             {"search"}
      [] tool \in {"Atlassian:atlassianUserInfo"} ->
             {"atlassianUserInfo"}
      [] tool \in {"Atlassian:getAccessibleAtlassianResources"} ->
             {"getAccessible"}
      [] tool \in {"Atlassian:fetch"} ->
             {"fetch"}
      [] OTHER -> {}

Categories ==
    {None, Some(""), Some("jira"), Some("Jira"), Some("confluence"),
     Some("rovo"), Some("auth"), Some("other")}

\* category.lower() on the categories above
LowerCategory(c) == IF c = "Jira" THEN "jira" ELSE c

\* category_map.get(category.lower(), [])
CategoryKeywords(c) ==
    CASE LowerCategory(c) = "jira" -> {"Jira"}
      [] LowerCategory(c) = "confluence" -> {"Confluence"}
      [] LowerCategory(c) = "rovo" -> {"search"}
      [] LowerCategory(c) = "auth" -> {"atlassianUserInfo", "getAccessible", "fetch"}
      [] OTHER -> {}

\* tool_name in self.available_tools
ToolIn(tn, tools) == \E i \in DOMAIN tools : tools[i] = tn

\* get_available_tools(category)
ToolsOfCategory(tools, category) ==
    IF ~Truthy(category) THEN tools
    ELSE LET Keep(t) == KeywordsIn(t) \cap CategoryKeywords(category[1]) # {}
         IN  SelectSeq(tools, Keep)

LookupNames == {"Atlassian:search", "Atlassian:fetch", "Atlassian:deleteJiraIssue"}

ClientErrors ==
    { <<"Rate", "Limit", "exceeded">>,
      <<"Permission", "denied">>,
      <<"Connection", "timeout">> }

\* Faulty variant: an explicit cloudId of the call becomes the client's.
CloudIdAfterEntry_Adopts(cid, ps) ==
    IF "cloudId" \in DOMAIN ps THEN ps["cloudId"] ELSE cid

\* self.cloud_id after the entry of call_tool, which reads it and writes
\* only the parameters.
CloudIdAfterEntry(cid, ps) == cid

\* Everything but the client's own fields, the call in progress and the
\* lookup history.
besideClient == <<client_state, ctor_args, discovery_calls, factoryVars, providerVars,
                  concVars, singletonVars>>

\* call_tool(tn, ps, n) by a user of the constructed client.
ClientCallTool(tn, ps, n) ==
    /\ pc = "idle"
    /\ client_state = "ready"
    /\ CallEntry(tn, ps, n, cloud_id)
    /\ cloud_id' = CloudIdAfterEntry(cloud_id, ps)
    /\ UNCHANGED <<available_tools, query_last, besideClient>>

\* is_tool_available(tn)
IsToolAvailable(tn) ==
    /\ client_state = "ready"
    /\ query_last.op # "testing"
    /\ query_last' = [op |-> "is_tool_available", arg |-> Some(tn),
                      value |-> ToolIn(tn, available_tools)]
    /\ UNCHANGED <<callVars, available_tools, besideClient>>

\* get_available_tools(category)
GetAvailableTools(category) ==
    /\ client_state = "ready"
    /\ query_last.op # "testing"
    /\ query_last' = [op |-> "get_available_tools", arg |-> category,
                      value |-> ToolsOfCategory(available_tools, category)]
    /\ UNCHANGED <<callVars, available_tools, besideClient>>

\* test_connection() up to the first await of its call_tool.
TestConnection ==
    /\ pc = "idle"
    /\ client_state = "ready"
    /\ CallEntry("Atlassian:atlassianUserInfo", EmptyDict, DefaultRetries, cloud_id)
    /\ query_last' = [op |-> "testing", arg |-> None, value |-> FALSE]
    /\ UNCHANGED <<cloud_id, available_tools, besideClient>>

\* call_tool returns to test_connection, which returns result.success (False
\* had call_tool raised).
TestConnectionReturns ==
    /\ query_last.op = "testing"
    /\ pc \in {"returned", "raised"}
    /\ query_last' = [op |-> "test_connection", arg |-> None,
                      value |-> (pc = "returned" /\ result[1].success)]
    /\ pc' = "idle"
    /\ UNCHANGED <<cloud_id, tool_name, parameters, retries, attempt, elapsed,
                   result, orig_parameters, dispatched, outcomes, waits,
                   available_tools, besideClient>>

ClientNext ==
    \/ \E ps \in ParameterMaps, n \in 0..MaxRetries :
          ClientCallTool("Atlassian:getJiraIssue", ps, n)
    \/ \E data \in ConcData : TransportReturns(data, 0)
    \/ \E e \in ClientErrors : TransportRaises(e, 0)
    \/ SleepReturns
    \/ CallerResumes
    \/ \E tn \in LookupNames : IsToolAvailable(tn)
    \/ \E c \in Categories : GetAvailableTools(c)
    \/ TestConnection
    \/ TestConnectionReturns

ClientSpec == Init /\ [][ClientNext]_vars

\* C23: once the client is constructed, no call_tool (succeeding or
\* failing), is_tool_available, get_available_tools or test_connection step
\* changes its cloud_id or its available_tools.
C23_ClientFieldsFrozen ==
    [][client_state = "ready" =>
          /\ cloud_id' = cloud_id
          /\ available_tools' = available_tools]_vars

C23_Witness ==
    /\ query_last.op = "test_connection"
    /\ query_last.value = FALSE
    /\ cloud_id = Some("cloud-1")
    /\ available_tools = KnownTools
    /\ pc = "await"
    /\ "cloudId" \in DOMAIN orig_parameters
    /\ Len(outcomes) = 1


-----------------------------------------------------------------------------
(* Sampling options of chat_completion and stream_chat_completion.
   Temperatures are counted in tenths. *)

\* temperature and max_tokens as a caller may pass them: omitted, 0, a value.
TemperatureArgs == {None, Some(0), Some(10)}

MaxTokensArgs == {None, Some(0), Some(100)}

\* Adapter configurations: temperature and max_tokens each absent, 0 or set.
RequestConfigs ==
    LET base == [k \in {"api_key"} |-> "sk-1"]
        With(d, k, v) == [x \in DOMAIN d \cup {k} |-> IF x = k THEN v ELSE d[x]]
        temps == {base} \cup {With(base, "temperature", t) : t \in {0, 3}}
    IN  temps \cup {With(d, "max_tokens", m) : d \in temps, m \in {0, 256}}

\* Faulty variant: `temperature or self.default_temperature`.
GetTemperature_OrDefault(a, temperature) ==
    IF temperature # None /\ temperature[1] # 0 THEN temperature[1]
    ELSE a.default_temperature

\* BaseModelProvider._get_temperature
GetTemperature(a, temperature) ==
    IF temperature # None THEN temperature[1] ELSE a.default_temperature

\* BaseModelProvider._get_max_tokens
GetMaxTokens(a, max_tokens) ==
    IF max_tokens # None THEN max_tokens[1] ELSE a.default_max_tokens

\* The sampling options of the request the adapter builds (for Ollama,
\* options.temperature and options.num_predict).
RequestOptions(a, temperature, max_tokens) ==
    [temperature |-> GetTemperature(a, temperature),
     max_tokens |-> GetMaxTokens(a, max_tokens)]

RequestInit ==
    /\ cloud_id = None
    /\ CallIdle
    /\ ClientReady
    /\ FactoryUnused
    /\ RestUnused
    /\ \E c \in AdapterClasses, cfg \in RequestConfigs :
          adapter = ProviderInit(c, cfg, TRUE).adapter
    /\ backend = Some([fault |-> "none", pieces |-> <<Some(<<"a">>)>>,
                       shape |-> "str", models |-> << >>])
    /\ provider_last = NoneYet
    /\ requests = NoRequests

\* An operation called with the given temperature and max_tokens: the request
\* it sends and how it ends.
Send(op, temperature, max_tokens, outcome) ==
    /\ adapter # None
    /\ requests[op] = None
    /\ requests' = [requests EXCEPT ![op] =
                      Some([args |-> [temperature |-> temperature,
                                      max_tokens |-> max_tokens],
                            sent |-> RequestOptions(adapter[1], temperature, max_tokens)])]
    /\ provider_last' = [provider_last EXCEPT ![op] = Some(outcome)]
    /\ UNCHANGED <<adapter, backend, callVars, ctorVars, factoryVars, concVars,
                   lookupVars, singletonVars>>

ChatCompletionWith(temperature, max_tokens) ==
    Send("chat", temperature, max_tokens, ChatOutcome(adapter[1].class, backend[1]))

StreamChatCompletionWith(temperature, max_tokens) ==
    Send("stream", temperature, max_tokens, StreamOutcome(adapter[1].class, backend[1]))

RequestNext ==
    \E t \in TemperatureArgs, m \in MaxTokensArgs :
        \/ ChatCompletionWith(t, m)
        \/ StreamChatCompletionWith(t, m)

RequestSpec == RequestInit /\ [][RequestNext]_vars

\* What the adapter's configuration gives for key, or the built-in default.
Configured(key, builtin) ==
    IF key \in DOMAIN adapter[1].config THEN adapter[1].config[key] ELSE builtin

\* C24: for each adapter, chat_completion and stream_chat_completion send the
\* caller's temperature and max_tokens when given, 0 included, and otherwise
\* the configured defaults, which are 0.7 and 4096 when the configuration
\* gives none.
C24_DefaultsOnlyWhenOmitted ==
    \A op \in {"chat", "stream"} :
        requests[op] # None =>
            LET r == requests[op][1] IN
            /\ r.sent.temperature =
                  IF r.args.temperature = None THEN Configured("temperature", 7)
                  ELSE r.args.temperature[1]
            /\ r.sent.max_tokens =
                  IF r.args.max_tokens = None THEN Configured("max_tokens", 4096)
                  ELSE r.args.max_tokens[1]

C24_Witness ==
    /\ requests["chat"] # None
    /\ requests["stream"] # None
    /\ "temperature" \notin DOMAIN adapter[1].config
    /\ requests["chat"][1].args = [temperature |-> Some(0), max_tokens |-> None]
    /\ requests["chat"][1].sent = [temperature |-> 0, max_tokens |-> 4096]
    /\ requests["stream"][1].args = [temperature |-> None, max_tokens |-> Some(0)]
    /\ requests["stream"][1].sent = [temperature |-> 7, max_tokens |-> 0]


-----------------------------------------------------------------------------
(* C25: RequirementsAgent._initialize_provider *)

InitializeDone == factory_last.op = "initialize_provider"

\* The fallback configuration the agent is to use.
FixedFallback ==
    [k \in {"provider", "model_name", "base_url", "temperature", "max_tokens"} |->
        CASE k = "provider" -> "ollama"
          [] k = "model_name" -> "llama3.3:70b"
          [] k = "base_url" -> "http://localhost:11434"
          [] k = "temperature" -> 7
          [] k = "max_tokens" -> 4096]

\* C25: _initialize_provider calls create with the configured provider; when
\* that fails it calls create exactly once more, with the fixed fallback
\* configuration, and returns that adapter, or lets the fallback's error
\* propagate; there is never a third call.
C25_OneFallbackOnly ==
    InitializeDone =>
        LET calls == factory_last.out.creates
            out == factory_last.out
        IN  /\ Len(calls) \in {1, 2}
            /\ calls[1].config = factory_last.config
            /\ Len(calls) = 1 <=> calls[1].raised = None
            /\ Len(calls) = 1 => (out.raised = None /\ out.adapter # None)
            /\ Len(calls) = 2 =>
                  /\ calls[2].config = FixedFallback
                  /\ out.raised = calls[2].raised
                  /\ (out.raised = None) <=> (out.adapter # None)
                  /\ out.adapter # None => out.adapter[1].config = FixedFallback

C25_Witness ==
    /\ InitializeDone
    /\ ConfigGet(factory_last.config, "provider") = Some("OPENAI")
    /\ Len(factory_last.out.creates) = 2
    /\ factory_last.out.creates[1].raised = Some("ValueError")
    /\ factory_last.out.adapter # None
    /\ factory_last.out.adapter[1].class = "OllamaProvider"
    /\ factory_last.out.adapter[1].base_url = Some("http://localhost:11434")


-----------------------------------------------------------------------------
(* C26: the tenant id after auto-discovery *)

\* The first resource of the discovery call's answer.
FirstResource == result[1].data[1]["resources"][1]

\* C26: when construction with auto-discovery has completed, cloud_id is a
\* non-null identifier, the id of the first resource the discovery tool
\* returned.
C26_DiscoveredTenantPresent ==
    (DiscoveryRequested /\ client_state = "ready") =>
        /\ cloud_id # None
        /\ "id" \in DOMAIN FirstResource
        /\ cloud_id = FirstResource["id"]


-----------------------------------------------------------------------------
(* C27, C28: classification precedence and the failures call_tool returns *)

\* The call went on after its i-th attempt, with the backoff of that attempt.
RetriedAfter(i) ==
    /\ ~(Returned /\ Len(outcomes) = i)
    /\ \E j \in DOMAIN waits : waits[j] = 2 ^ (i - 1)
    /\ Len(waits) = Cardinality(BackedOff)

\* C27: a failed attempt is classified on its lower-cased message in the
\* order 'rate limit', 'not found', 'permission' or 'unauthorized'. A message
\* with 'rate limit', with or without a terminal keyword, is backed off and
\* retried while attempts remain and ends the call with the original message
\* on the last attempt; without 'rate limit', 'not found' ends the call with
\* "Resource not found" also when 'permission' occurs, and 'permission' or
\* 'unauthorized' alone ends it with "Permission denied".
C27_ClassificationPrecedence ==
    \A i \in Attempts :
        outcomes[i].raised =>
            LET e == outcomes[i].value IN
            /\ (MentionsRateLimit(e) /\ i < retries) => RetriedAfter(i)
            /\ (MentionsRateLimit(e) /\ i = retries) => EndedAt(i, e)
            /\ (~MentionsRateLimit(e) /\ MentionsNotFound(e))
                  => EndedAt(i, <<"Resource", "not", "found">>)
            /\ (~MentionsRateLimit(e) /\ ~MentionsNotFound(e) /\ MentionsPermission(e))
                  => EndedAt(i, <<"Permission", "denied">>)

C27_Witness ==
    /\ Returned
    /\ retries = 2
    /\ Len(outcomes) = 2
    /\ outcomes[1].raised
    /\ outcomes[1].value = <<"rate", "limit", "policy", "not", "found">>
    /\ outcomes[2].raised
    /\ outcomes[2].value = <<"Rate", "limit", "permission", "missing">>
    /\ waits = <<1>>
    /\ ReturnedError(<<"Rate", "limit", "permission", "missing">>)

\* C28: with retries <= 0 call_tool dispatches nothing and returns
\* success=false with "Max retries exceeded"; with retries >= 1 a returned
\* failure carries "Resource not found", "Permission denied" or the original
\* message of the final attempt.
C28_ReturnedFailures ==
    (Returned /\ result # None) =>
        /\ retries <= 0 =>
              /\ dispatched = << >>
              /\ ReturnedError(<<"Max", "retries", "exceeded">>)
        /\ (retries >= 1 /\ result[1].success = FALSE) =>
              /\ outcomes # << >>
              /\ outcomes[Len(outcomes)].raised
              /\ \/ ReturnedError(<<"Resource", "not", "found">>)
                 \/ ReturnedError(<<"Permission", "denied">>)
                 \/ ReturnedError(outcomes[Len(outcomes)].value)

C28_Witness ==
    /\ Returned
    /\ retries = 0
    /\ dispatched = << >>
    /\ ReturnedError(<<"Max", "retries", "exceeded">>)


-----------------------------------------------------------------------------
(* C29: the advertised kinds and the registry *)

\* The set of the entries of a list.
ListedKinds(q) == {q[i] : i \in DOMAIN q}

SupportedDone == factory_last.op = "supported"

\* C29: whatever was registered or created before, the list returned by
\* supported_providers(), and the list in the message of a create that
\* rejects its kind, hold exactly the keys of the provider registry, i.e.
\* the kinds create accepts.
C29_SupportedMatchesRegistry ==
    /\ SupportedDone => ListedKinds(factory_last.out) = DOMAIN registry
    /\ (CreateDone /\ factory_last.out.listed # None)
          => ListedKinds(factory_last.out.listed[1]) = DOMAIN registry


-----------------------------------------------------------------------------
(* get_mcp_client: the process-wide client *)

MaxConstructions == 2

\* llama_stack_url arguments and values of LLAMA_STACK_BASE_URL.
UrlArgs == {None, Some("http://stack-a:5000"), Some("http://stack-b:5000")}

EnvUrls == {None, Some("http://env:5000")}

DefaultUrl == "http://localhost:5000"

\* llama_stack_url or os.getenv("LLAMA_STACK_BASE_URL", "http://localhost:5000")
ResolveUrl(llama_stack_url, env) ==
    IF Truthy(llama_stack_url) THEN llama_stack_url[1]
    ELSE IF env # None THEN env[1]
    ELSE DefaultUrl

\* Faulty variant: every call builds a new client.
MustConstruct_Always(inst) == TRUE

\* if _mcp_client_instance is None
MustConstruct(inst) == inst = None

SingletonInit ==
    /\ cloud_id = None
    /\ CallIdle
    /\ client_state = "none"
    /\ available_tools = << >>
    /\ ctor_args = None
    /\ discovery_calls = 0
    /\ FactoryUnused
    /\ ProviderUnused
    /\ RestUnused

besideSingleton == <<factoryVars, providerVars, concVars, lookupVars>>

\* get_mcp_client(llama_stack_url, cloud_id) up to its return or to the first
\* await of the constructor it runs. The constructor is synchronous, so no
\* other call starts while one is under way.
GetMcpClient(llama_stack_url, cid, env) ==
    /\ client_state # "discovering"
    /\ pc = "idle"
    /\ IF MustConstruct(instance)
       THEN /\ constructions < MaxConstructions
            /\ constructions' = constructions + 1
            /\ NewClient(cid, TRUE)
            /\ LET built == [id |-> constructions',
                             llama_stack_url |-> ResolveUrl(llama_stack_url, env)] IN
               IF Truthy(cid)
               THEN /\ instance' = Some(built)
                    /\ get_last' = [op |-> "returned", llama_stack_url |-> llama_stack_url,
                                    cloud_id |-> cid, built |-> Some(built),
                                    value |-> Some(built)]
               ELSE /\ instance' = instance
                    /\ get_last' = [op |-> "constructing", llama_stack_url |-> llama_stack_url,
                                    cloud_id |-> cid, built |-> Some(built),
                                    value |-> None]
       ELSE /\ get_last' = [op |-> "returned", llama_stack_url |-> llama_stack_url,
                            cloud_id |-> cid, built |-> None, value |-> instance]
            /\ UNCHANGED <<callVars, ctorVars, instance, constructions>>
    /\ UNCHANGED besideSingleton

\* The constructor finishes after discovery: the global is assigned and
\* returned, or the constructor's exception leaves get_mcp_client before the
\* assignment.
ConstructorEnds ==
    /\ get_last.op = "constructing"
    /\ StoreDiscovery
    /\ IF client_state' = "ready"
       THEN /\ instance' = get_last.built
            /\ get_last' = [get_last EXCEPT !.op = "returned", !.value = get_last.built]
       ELSE /\ instance' = instance
            /\ get_last' = [get_last EXCEPT !.op = "raised"]
    /\ UNCHANGED <<constructions, besideSingleton>>

SingletonNext ==
    \/ \E u \in UrlArgs, cid \in CloudIds, env \in EnvUrls : GetMcpClient(u, cid, env)
    \/ \E data \in DiscoveryData, lat \in Latencies :
          client_state = "discovering" /\ TransportReturns(data, lat)
    \/ \E e \in ErrorMessages, lat \in Latencies :
          client_state = "discovering" /\ TransportRaises(e, lat)
    \/ client_state = "discovering" /\ SleepReturns
    \/ ConstructorEnds

SingletonSpec == SingletonInit /\ [][SingletonNext]_vars

\* A call of get_mcp_client starts in this step.
GetStarts == get_last' # get_last /\ get_last'.op # "raised" /\ get_last.op # "constructing"

\* C30: once a construction has succeeded the global instance never changes,
\* no further client is constructed, and every call returns that instance
\* whatever llama_stack_url and cloud_id it passes, leaving the client's
\* cloud_id alone; a construction that raises leaves the global unset, and
\* the next call constructs again.
C30_OneClientPerProcess ==
    /\ [](get_last.op = "raised" => instance = None)
    /\ []((instance # None) => instance[1].id = constructions)
    /\ [][ /\ (instance # None) =>
                /\ instance' = instance
                /\ constructions' = constructions
                /\ cloud_id' = cloud_id
                /\ available_tools' = available_tools
                /\ get_last'.op = "returned"
                /\ get_last'.value = instance
           /\ (instance = None /\ GetStarts) => constructions' = constructions + 1
         ]_vars

C30_Witness ==
    /\ constructions = 2
    /\ discovery_calls = 1
    /\ instance # None
    /\ instance[1].id = 2
    /\ get_last.op = "returned"
    /\ get_last.built = None
    /\ get_last.cloud_id = Some("")
    /\ get_last.llama_stack_url = Some("http://stack-b:5000")
    /\ instance[1].llama_stack_url = "http://stack-a:5000"
    /\ cloud_id = Some("cloud-1")

====
